---- MODULE Spec2Model ----
(***************************************************************************)
(* A model of nalco_scraper.py: the locator of the circular's link, the    *)
(* extraction of the IE07 row, the ledger (nalco_prices.xlsx), the run log *)
(* (nalco_run_log.xlsx), the last-url marker (latest_nalco_pdf.txt) and    *)
(* main(), one step per statement of main() that reads or writes them.     *)
(*                                                                         *)
(* Strings the code inspects (hrefs, anchor texts, file names, table       *)
(* cells, text lines) are sequences of one-character strings, so that      *)
(* lower(), strip(), endswith(), "in" and the regular expressions are      *)
(* computed as the code computes them.  None and "" are both <<>>.         *)
(***************************************************************************)
EXTENDS Integers, Sequences, FiniteSets, TLC

VARIABLES
    pc,         \* where main() stands, or how it ended
    runs,       \* the invocations so far; the clock now_times() reads
    html,       \* the page get_html returned
    pdf_url,    \* main's pdf_url
    last,       \* main's last
    ctype,      \* download_pdf's ctype
    pdf_path,   \* main's pdf_path (the name of the saved file)
    pdf,        \* the pages of the file at pdf_path
    row,        \* main's row, <<>> before it is assigned
    total_rows, \* main's total_rows
    today,      \* datetime.date.today() of this invocation
    marker,     \* the text of LOG_FILE, "" when there is no file
    ledger,     \* the rows of EXCEL_FILE, none when there is no file
    runlog,     \* the rows of RUNLOG_FILE, none when there is no file
    exits       \* how each invocation ended: the url it printed, its exit

vars == <<pc, runs, html, pdf_url, last, ctype, pdf_path, pdf, row, total_rows,
          today, marker, ledger, runlog, exits>>

\* ------------------------------------------------------------ bounds

MaxLinks == 3
MaxPages == 2
MaxRuns == 3
MaxAppends == 2

\* ------------------------------------------------------------ strings

None == <<>>

UC == <<"A","B","C","D","E","F","G","H","I","J","K","L","M",
        "N","O","P","Q","R","S","T","U","V","W","X","Y","Z">>
LC == <<"a","b","c","d","e","f","g","h","i","j","k","l","m",
        "n","o","p","q","r","s","t","u","v","w","x","y","z">>
DIGITS == <<"0","1","2","3","4","5","6","7","8","9">>

InSeq(c, s) == \E i \in 1..Len(s) : s[i] = c
IndexIn(c, s) == CHOOSE i \in 1..Len(s) : s[i] = c

LowerChar(c) == IF InSeq(c, UC) THEN LC[IndexIn(c, UC)] ELSE c
UpperChar(c) == IF InSeq(c, LC) THEN UC[IndexIn(c, LC)] ELSE c
Lower(s) == [i \in 1..Len(s) |-> LowerChar(s[i])]
Upper(s) == [i \in 1..Len(s) |-> UpperChar(s[i])]

IsDigit(c) == InSeq(c, DIGITS)
IsLetter(c) == InSeq(c, UC) \/ InSeq(c, LC)
IsWordChar(c) == IsLetter(c) \/ IsDigit(c) \/ c = "_"
IsSpace(c) == c = " "
DigitVal(c) == IndexIn(c, DIGITS) - 1

\* s[a..b], empty when a > b
Slice(s, a, b) == IF a > b THEN <<>> ELSE SubSeq(s, a, b)

\* str.strip()
Strip(s) ==
    IF \A i \in 1..Len(s) : IsSpace(s[i]) THEN <<>>
    ELSE LET a == CHOOSE i \in 1..Len(s) :
                      ~IsSpace(s[i]) /\ \A j \in 1..(i-1) : IsSpace(s[j])
             b == CHOOSE i \in 1..Len(s) :
                      ~IsSpace(s[i]) /\ \A j \in (i+1)..Len(s) : IsSpace(s[j])
         IN  SubSeq(s, a, b)

\* str.endswith(suf)
EndsWith(s, suf) ==
    /\ Len(s) >= Len(suf)
    /\ SubSeq(s, Len(s) - Len(suf) + 1, Len(s)) = suf

StartsWith(s, pre) == Len(s) >= Len(pre) /\ SubSeq(s, 1, Len(pre)) = pre

\* sub in s
Contains(s, sub) ==
    \E i \in 1..(Len(s) - Len(sub) + 1) : SubSeq(s, i, i + Len(sub) - 1) = sub

\* str.replace(c, "") for a one-character c
RECURSIVE Remove(_, _)
Remove(s, c) ==
    IF s = <<>> THEN <<>>
    ELSE IF Head(s) = c THEN Remove(Tail(s), c)
    ELSE <<Head(s)>> \o Remove(Tail(s), c)

\* int(s) for a string of digits
RECURSIVE ToInt(_)
ToInt(s) ==
    IF s = <<>> THEN 0
    ELSE 10 * ToInt(SubSeq(s, 1, Len(s) - 1)) + DigitVal(s[Len(s)])

AllDigits(s) == \A i \in 1..Len(s) : IsDigit(s[i])

Min(S) == CHOOSE x \in S : \A y \in S : x <= y
Max(S) == CHOOSE x \in S : \A y \in S : x >= y

\* ------------------------------------------------------------ config

NALCO_URL == <<"h", "t", "t", "p", "s", ":", "/", "/", "n", "a", "l", "c", "o",
               "i", "n", "d", "i", "a", ".", "c", "o", "m", "/", "d", "o", "m",
               "e", "s", "t", "i", "c", "/", "c", "u", "r", "r", "e", "n", "t",
               "-", "p", "r", "i", "c", "e", "/">>

S_pdf == <<".", "p", "d", "f">>
S_spec == <<"s", "p", "e", "c">>
S_ingots == <<"i", "n", "g", "o", "t", "s">>
S_ingot == <<"i", "n", "g", "o", "t">>
S_ingot_dash == <<"i", "n", "g", "o", "t", "-">>
S_scheme == <<"h", "t", "t", "p", "s", ":", "/", "/">>

\* DATEY_PDF_RE: Ingot-(\d{2})-(\d{2})-(\d{4})\.pdf$ with re.IGNORECASE,
\* the 20 characters that end the string
DateyLen == 20

DateyMatch(s) ==
    /\ Len(s) >= DateyLen
    /\ LET t == SubSeq(s, Len(s) - DateyLen + 1, Len(s))
       IN  /\ Lower(SubSeq(t, 1, 6)) = S_ingot_dash
           /\ AllDigits(SubSeq(t, 7, 8))
           /\ t[9] = "-"
           /\ AllDigits(SubSeq(t, 10, 11))
           /\ t[12] = "-"
           /\ AllDigits(SubSeq(t, 13, 16))
           /\ Lower(SubSeq(t, 17, 20)) = S_pdf

\* the groups (dd, mm, yyyy) of a match
DateyGroups(s) ==
    LET t == SubSeq(s, Len(s) - DateyLen + 1, Len(s))
    IN  <<SubSeq(t, 7, 8), SubSeq(t, 10, 11), SubSeq(t, 13, 16)>>

\* ------------------------------------------------------------ locator

norm(s) == Lower(Strip(s))

\* urljoin(NALCO_URL, href) for the three shapes of href a page holds:
\* absolute, rooted at the host, relative to the page's directory
Origin == SubSeq(NALCO_URL, 1, 22)

urljoin(href) ==
    IF StartsWith(Lower(href), S_scheme) THEN href
    ELSE IF StartsWith(href, <<"/">>) THEN Origin \o href
    ELSE NALCO_URL \o href

\* An element of the page in document order: a link (<a href=..>) with its
\* own text and at most one <p> child, or a <p> outside any link (href None).
NoP == <<"<", "n", "o", "p", ">">>
Elem(h, t, p) == [href |-> h, txt |-> t, p |-> p]

HasHref(e) == e.href # None
HasP(e) == e.p # NoP
\* a.get_text(): the link's own text, then its <p>'s
get_text(e) == IF HasP(e) THEN e.txt \o e.p ELSE e.txt

\* href.lower().endswith(".pdf") and "spec" not in href.lower()
PdfNotSpec(href) ==
    /\ EndsWith(Lower(href), S_pdf)
    /\ ~Contains(Lower(href), S_spec)

\* lines 51-57: the <p> whose text is "ingots", inside a link to a pdf
StrictAccepts(e) ==
    /\ HasP(e)
    /\ norm(e.p) = S_ingots
    /\ HasHref(e)
    /\ PdfNotSpec(Strip(e.href))

\* lines 60-64
DatedAccepts(e) ==
    /\ HasHref(e)
    /\ PdfNotSpec(Strip(e.href))
    /\ DateyMatch(Strip(e.href))

\* lines 67-71
LooseAccepts(e) ==
    /\ HasHref(e)
    /\ EndsWith(Lower(Strip(e.href)), S_pdf)
    /\ Contains(norm(get_text(e)), S_ingot)
    /\ ~Contains(Lower(Strip(e.href)), S_spec)

\* one for-loop of find_ingots_pdf_url: the first of the accepted elements
\* (their places in the page) gives the url
FirstAccepted(page, accepted) ==
    IF accepted = {} THEN None
    ELSE urljoin(Strip(page[Min(accepted)].href))

Strict(page) == FirstAccepted(page, {i \in 1..Len(page) : StrictAccepts(page[i])})
Dated(page) == FirstAccepted(page, {i \in 1..Len(page) : DatedAccepts(page[i])})
Loose(page) == FirstAccepted(page, {i \in 1..Len(page) : LooseAccepts(page[i])})

find_ingots_pdf_url_dated_first(page) ==
    IF Dated(page) # None THEN Dated(page)
    ELSE IF Strict(page) # None THEN Strict(page)
    ELSE Loose(page)

find_ingots_pdf_url(page) ==
    IF Strict(page) # None THEN Strict(page)
    ELSE IF Dated(page) # None THEN Dated(page)
    ELSE Loose(page)

\* ------------------------------------------------------------ sorting

\* k < l for two keys, sequences of integers of one length, column by column
RECURSIVE LexLess(_, _)
LexLess(k, l) ==
    IF k = <<>> THEN FALSE
    ELSE IF Head(k) # Head(l) THEN Head(k) < Head(l)
    ELSE LexLess(Tail(k), Tail(l))

\* a stable sort: the indices 1..n of keys in ascending order of key, equal
\* keys in their original order
RECURSIVE InsertIdx(_, _, _)
InsertIdx(i, sorted, keys) ==
    IF sorted = <<>> THEN <<i>>
    ELSE IF LexLess(keys[i], keys[Head(sorted)]) THEN <<i>> \o sorted
    ELSE <<Head(sorted)>> \o InsertIdx(i, Tail(sorted), keys)

RECURSIVE SortIdx(_, _)
SortIdx(n, keys) ==
    IF n = 0 THEN <<>> ELSE InsertIdx(n, SortIdx(n - 1, keys), keys)

\* ------------------------------------------------------------ extraction

S_ie07 == <<"i", "e", "0", "7">>
S_IE07 == <<"I", "E", "0", "7">>
S_DEFAULT_DESC == <<"A", "L", "U", "M", "I", "N", "I", "U", "M", " ",
                    "I", "N", "G", "O", "T">>

\* re.fullmatch(r"IE07", x, flags=re.IGNORECASE)
IsCode(x) == Lower(x) = S_ie07

\* re.fullmatch(r"\d+(\.\d+)?", x)
IsNumeric(x) ==
    \/ Len(x) >= 1 /\ AllDigits(x)
    \/ \E d \in 2..(Len(x) - 1) :
          /\ x[d] = "."
          /\ AllDigits(SubSeq(x, 1, d - 1))
          /\ AllDigits(SubSeq(x, d + 1, Len(x)))

\* re.search(r"\d", x)
HasDigit(x) == \E i \in 1..Len(x) : IsDigit(x[i])

Record(desc, code, price) ==
    [Description |-> desc, ProductCode |-> code, BasicPrice |-> price]

\* lines 134-160, one row of a table: <<record>> when the row is accepted
RowResult(tblrow) ==
    LET cells == [i \in 1..Len(tblrow) |-> Strip(tblrow[i])]
    IN  IF ~\E i \in 1..Len(cells) : IsCode(cells[i]) THEN <<>>
        ELSE
        LET idx_code == CHOOSE i \in 1..Len(cells) :
                           IsCode(cells[i]) /\ \A j \in 1..(i-1) : ~IsCode(cells[j])
            IsDesc(j) == cells[j] # <<>> /\ ~IsNumeric(cells[j])
            desc == IF \E j \in 1..(idx_code - 1) : IsDesc(j)
                    THEN cells[CHOOSE j \in 1..(idx_code - 1) :
                             IsDesc(j) /\ \A m \in (j+1)..(idx_code - 1) : ~IsDesc(m)]
                    ELSE <<>>
            IsPrice(j) == HasDigit(cells[j])
            price == IF \E j \in (idx_code + 1)..Len(cells) : IsPrice(j)
                     THEN Remove(cells[CHOOSE j \in (idx_code + 1)..Len(cells) :
                             IsPrice(j) /\ \A m \in (idx_code + 1)..(j-1) : ~IsPrice(m)],
                             ",")
                     ELSE <<>>
        IN  IF price # <<>>
            THEN <<Record(Upper(IF desc # <<>> THEN desc ELSE S_DEFAULT_DESC),
                          S_IE07, price)>>
            ELSE <<>>

\* the rows of a page's tables, table by table
RECURSIVE Flatten(_)
Flatten(ss) == IF ss = <<>> THEN <<>> ELSE Head(ss) \o Flatten(Tail(ss))

\* lines 132-160: the first accepted row of the page's tables
TableResult(page) ==
    LET rows == Flatten(page.tables)
    IN  IF \E i \in 1..Len(rows) : RowResult(rows[i]) # <<>>
        THEN RowResult(rows[CHOOSE i \in 1..Len(rows) :
                 RowResult(rows[i]) # <<>>
                 /\ \A j \in 1..(i-1) : RowResult(rows[j]) = <<>>])
        ELSE <<>>

\* round(w["top"], 1), top in hundredths, to tenths (halves to even)
Round1(top) ==
    LET q == top \div 10
        r == top % 10
    IN  IF r < 5 THEN q
        ELSE IF r > 5 THEN q + 1
        ELSE IF q % 2 = 0 THEN q ELSE q + 1

\* the keys of the dict lines, in order of insertion
RECURSIVE LineKeys(_)
LineKeys(words) ==
    IF words = <<>> THEN <<>>
    ELSE LET before == LineKeys(SubSeq(words, 1, Len(words) - 1))
             y == Round1(words[Len(words)].top)
         IN  IF InSeq(y, before) THEN before ELSE Append(before, y)

RECURSIVE JoinWords(_)
JoinWords(ws) ==
    IF ws = <<>> THEN <<>>
    ELSE IF Len(ws) = 1 THEN ws[1].text
    ELSE ws[1].text \o <<" ">> \o JoinWords(Tail(ws))

\* line 169: the words of line y, sorted by x0, joined by blanks
text_line(words, y) ==
    LET wlist == SelectSeq(words, LAMBDA w : Round1(w.top) = y)
        order == SortIdx(Len(wlist), [i \in 1..Len(wlist) |-> <<wlist[i].x0>>])
    IN  JoinWords([i \in 1..Len(wlist) |-> wlist[order[i]]])

NonWordAt(s, i) == i < 1 \/ i > Len(s) \/ ~IsWordChar(s[i])

\* re.search(r"\bIE07\b", s, flags=re.IGNORECASE)
HasCodeWord(s) ==
    \E i \in 1..(Len(s) - 3) :
        /\ Lower(SubSeq(s, i, i + 3)) = S_ie07
        /\ NonWordAt(s, i - 1)
        /\ NonWordAt(s, i + 4)

MinPriceDigits == 5
MaxPriceDigits == 7

RStrip(s) ==
    IF \A i \in 1..Len(s) : IsSpace(s[i]) THEN <<>>
    ELSE SubSeq(s, 1, CHOOSE i \in 1..Len(s) :
                    ~IsSpace(s[i]) /\ \A j \in (i+1)..Len(s) : IsSpace(s[j]))

\* the length of the run of digits that starts t
DigitRun(t) ==
    IF t = <<>> \/ ~IsDigit(t[1]) THEN 0
    ELSE CHOOSE n \in 1..Len(t) :
            /\ AllDigits(SubSeq(t, 1, n))
            /\ (n = Len(t) \/ ~IsDigit(t[n + 1]))

\* t matches \d{5,7}(?:\.\d+)?\s*$ from its first character
PriceTail(t) ==
    LET n == DigitRun(t)
        r == RStrip(Slice(t, n + 1, Len(t)))
    IN  /\ n >= MinPriceDigits /\ n <= MaxPriceDigits
        /\ \/ r = <<>>
           \/ Len(r) >= 2 /\ r[1] = "." /\ AllDigits(SubSeq(r, 2, Len(r)))

\* line 171-172: group 1 of the leftmost match, "" when there is none
LinePrice(s) ==
    IF \E i \in 1..Len(s) : PriceTail(SubSeq(s, i, Len(s)))
    THEN LET i == CHOOSE k \in 1..Len(s) :
                     /\ PriceTail(SubSeq(s, k, Len(s)))
                     /\ \A j \in 1..(k-1) : ~PriceTail(SubSeq(s, j, Len(s)))
         IN  Remove(RStrip(SubSeq(s, i, Len(s))), ",")
    ELSE <<>>

IsDescChar(c) == IsLetter(c) \/ c = " "
AllDescChars(s) == \A i \in 1..Len(s) : IsDescChar(s[i])

\* \b between s[k-1] and s[k]
BoundaryAt(s, k) == NonWordAt(s, k - 1) # NonWordAt(s, k)

\* the places where INGOT stands and a match of [A-Z ]*\b can follow it
IngotAt(s) ==
    {j \in 1..(Len(s) - 4) :
        /\ Lower(SubSeq(s, j, j + 4)) = S_ingot
        /\ \E k \in (j + 5)..(Len(s) + 1) :
              AllDescChars(Slice(s, j + 5, k - 1)) /\ BoundaryAt(s, k)}

\* the leftmost start from which [A-Z ]* reaches j
RunStart(s, j) ==
    CHOOSE i \in 1..j :
        /\ AllDescChars(Slice(s, i, j - 1))
        /\ (i = 1 \/ ~IsDescChar(s[i - 1]))

\* lines 173-174: group 1 of re.search(r"([A-Z ]*INGOT[A-Z ]*)\b", s,
\* re.IGNORECASE): leftmost start, then both stars as long as they can be
LineDesc(s) ==
    IF IngotAt(s) = {} THEN S_DEFAULT_DESC
    ELSE LET i == Min({RunStart(s, j) : j \in IngotAt(s)})
             j == Max({m \in IngotAt(s) : RunStart(s, m) <= i})
             k == Max({n \in (j + 5)..(Len(s) + 1) :
                         AllDescChars(Slice(s, j + 5, n - 1)) /\ BoundaryAt(s, n)})
         IN  Upper(Strip(SubSeq(s, i, k - 1)))

\* lines 168-180, one line of the page
LineResult(s) ==
    IF HasCodeWord(s) /\ LinePrice(s) # <<>>
    THEN <<Record(LineDesc(s), S_IE07, LinePrice(s))>>
    ELSE <<>>

\* lines 163-180: the first accepted line of the page
WordsResult(page) ==
    LET keys == LineKeys(page.words)
        res(i) == LineResult(text_line(page.words, keys[i]))
    IN  IF \E i \in 1..Len(keys) : res(i) # <<>>
        THEN res(CHOOSE i \in 1..Len(keys) :
                 res(i) # <<>> /\ \A j \in 1..(i-1) : res(j) = <<>>)
        ELSE <<>>

\* the body of the loop over pdf.pages
PageResult(page) ==
    IF TableResult(page) # <<>> THEN TableResult(page) ELSE WordsResult(page)

\* extract_row_ie07: <<record>>, or <<>> when it raises RuntimeError
RECURSIVE extract_row_ie07(_)
extract_row_ie07(doc) ==
    IF doc = <<>> THEN <<>>
    ELSE IF PageResult(Head(doc)) # <<>> THEN PageResult(Head(doc))
    ELSE extract_row_ie07(Tail(doc))

\* ------------------------------------------------------------ download

S_application_pdf == <<"a", "p", "p", "l", "i", "c", "a", "t", "i", "o", "n",
                       "/", "p", "d", "f">>
S_filename_eq == <<"f", "i", "l", "e", "n", "a", "m", "e", "=">>
\* f"nalco_{int(time.time())}.pdf", the clock's digits left out
S_fallback_name == <<"n", "a", "l", "c", "o", "_", "0", ".", "p", "d", "f">>

\* s.strip('"; ')
IsCdTrim(c) == c = "\"" \/ c = ";" \/ c = " "
StripCd(s) ==
    IF \A i \in 1..Len(s) : IsCdTrim(s[i]) THEN <<>>
    ELSE LET a == CHOOSE i \in 1..Len(s) :
                      ~IsCdTrim(s[i]) /\ \A j \in 1..(i-1) : IsCdTrim(s[j])
             b == CHOOSE i \in 1..Len(s) :
                      ~IsCdTrim(s[i]) /\ \A j \in (i+1)..Len(s) : IsCdTrim(s[j])
         IN  SubSeq(s, a, b)

\* cd.split("filename=", 1)[1]
AfterFirst(s, sep) ==
    LET i == CHOOSE k \in 1..(Len(s) - Len(sep) + 1) :
                 /\ SubSeq(s, k, k + Len(sep) - 1) = sep
                 /\ \A j \in 1..(k-1) : SubSeq(s, j, j + Len(sep) - 1) # sep
    IN  Slice(s, i + Len(sep), Len(s))

\* os.path.basename(urlparse(url).path) of a url with no query or fragment
basename(url) ==
    LET path == Slice(url, Len(Origin) + 1, Len(url))
    IN  IF ~InSeq("/", path) THEN path
        ELSE Slice(path,
                   1 + Max({i \in 1..Len(path) : path[i] = "/"}), Len(path))

\* lines 93-98: the name the document is saved under
SavedName(resp) ==
    LET fromcd == IF Contains(resp.cd, S_filename_eq)
                  THEN StripCd(AfterFirst(resp.cd, S_filename_eq))
                  ELSE <<>>
    IN  IF fromcd # <<>> THEN fromcd
        ELSE IF basename(resp.url) # <<>> THEN basename(resp.url)
        ELSE S_fallback_name

\* lines 89-92 pass: the status is a success and the type names a pdf
DownloadOk_any_type(resp) == resp.ok

DownloadOk(resp) ==
    /\ resp.ok
    /\ Contains(Lower(resp.ctype), S_application_pdf)

\* ------------------------------------------------------------ price, date

\* float(s) accepts s: a sign, digits, a fraction (exponents, inf and nan,
\* which no price of the documents below has, are left out)
FloatParts(s) ==
    LET u == IF s # <<>> /\ (s[1] = "+" \/ s[1] = "-") THEN Tail(s) ELSE s
        neg == s # <<>> /\ s[1] = "-"
        dot == IF InSeq(".", u) THEN IndexIn(".", u) ELSE Len(u) + 1
        ip == Slice(u, 1, dot - 1)
        fp == Slice(u, dot + 1, Len(u))
    IN  [ok |-> AllDigits(ip) /\ AllDigits(fp) /\ Len(ip) + Len(fp) >= 1,
         neg |-> neg, ip |-> ip, fp |-> fp]

\* the fraction .fp against one half: -1 below, 0 equal, 1 above
HalfCmp(fp) ==
    IF fp = <<>> \/ DigitVal(fp[1]) < 5 THEN -1
    ELSE IF DigitVal(fp[1]) > 5 THEN 1
    ELSE IF \E i \in 2..Len(fp) : fp[i] # "0" THEN 1 ELSE 0

\* to_thousands: <<round(float(s) / 1000.0, 3)>> in units of 0.0001, or
\* <<>> for None
to_thousands(value_str) ==
    LET s == Strip(Remove(value_str, ","))
        f == FloatParts(s)
    IN  IF s = <<>> \/ ~f.ok THEN <<>>
        ELSE LET n == ToInt(f.ip)
                 h == HalfCmp(f.fp)
                 r == IF h > 0 \/ (h = 0 /\ n % 2 = 1) THEN n + 1 ELSE n
             IN  <<10 * (IF f.neg THEN -r ELSE r)>>

\* Series.round(3) of a price in units of 0.0001
Round3(p) ==
    LET q == p \div 10
        r == p % 10
    IN  10 * (IF r < 5 THEN q
              ELSE IF r > 5 THEN q + 1
              ELSE IF q % 2 = 0 THEN q ELSE q + 1)

IsLeap(y) == (y % 4 = 0 /\ y % 100 # 0) \/ y % 400 = 0

DaysIn(m, y) ==
    IF m = 2 THEN (IF IsLeap(y) THEN 29 ELSE 28)
    ELSE IF m \in {4, 6, 9, 11} THEN 30 ELSE 31

\* datetime.date(y, m, d) does not raise ValueError
ValidDate(d, m, y) ==
    /\ y >= 1 /\ y <= 9999
    /\ m >= 1 /\ m <= 12
    /\ d >= 1 /\ d <= DaysIn(m, y)

Pad(n, width) ==
    [i \in 1..width |-> DIGITS[((n \div (10 ^ (width - i))) % 10) + 1]]

\* strftime("%d-%m-%Y") of a date <<d, m, y>> with a year of four digits
strftime(date) ==
    Pad(date[1], 2) \o <<"-">> \o Pad(date[2], 2) \o <<"-">> \o Pad(date[3], 4)

parse_circular_date_from_filename(name, day) ==
    IF DateyMatch(name)
    THEN LET g == DateyGroups(name)
             dd == ToInt(g[1])
             mm == ToInt(g[2])
             yyyy == ToInt(g[3])
         IN  IF ValidDate(dd, mm, yyyy) THEN strftime(<<dd, mm, yyyy>>)
             ELSE strftime(day)
    ELSE strftime(day)

\* pd.to_datetime(s, dayfirst=True, errors="coerce") of one cell DD-MM-YYYY:
\* <<d, m, y>>, or <<>> for NaT
to_datetime(s) ==
    IF /\ Len(s) = 10
       /\ AllDigits(SubSeq(s, 1, 2)) /\ s[3] = "-"
       /\ AllDigits(SubSeq(s, 4, 5)) /\ s[6] = "-"
       /\ AllDigits(SubSeq(s, 7, 10))
       /\ ValidDate(ToInt(SubSeq(s, 1, 2)), ToInt(SubSeq(s, 4, 5)),
                    ToInt(SubSeq(s, 7, 10)))
       /\ ToInt(SubSeq(s, 7, 10)) >= 1678 /\ ToInt(SubSeq(s, 7, 10)) <= 2261
    THEN <<ToInt(SubSeq(s, 1, 2)), ToInt(SubSeq(s, 4, 5)), ToInt(SubSeq(s, 7, 10))>>
    ELSE <<>>

\* a date as one number that orders as the calendar does
Ordinal(date) == date[3] * 10000 + date[2] * 100 + date[1]

\* ------------------------------------------------------------ ledger

LedgerRow(slno, desc, code, price, date, link) ==
    [SlNo |-> slno, Description |-> desc, ProductCode |-> code,
     BasicPrice |-> price, CircularDate |-> date, CircularLink |-> link]

\* the key of sort_values(by=["_date", "Sl.no."], ascending=[False, True]):
\* later dates first, NaT last, then Sl.no. ascending
SortKey_date_ascending(r) ==
    LET dt == to_datetime(r.CircularDate)
    IN  <<IF dt = <<>> THEN 99999999 ELSE Ordinal(dt), r.SlNo>>

SortKey(r) ==
    LET dt == to_datetime(r.CircularDate)
    IN  <<IF dt = <<>> THEN 1 ELSE -Ordinal(dt), r.SlNo>>

\* sort_and_format_df
sort_and_format_df_renumber(df) ==
    LET order == SortIdx(Len(df), [i \in 1..Len(df) |-> SortKey(df[i])])
    IN  [i \in 1..Len(df) |-> [df[order[i]] EXCEPT !.SlNo = i]]

sort_and_format_df(df) ==
    LET order == SortIdx(Len(df), [i \in 1..Len(df) |-> SortKey(df[i])])
        fmt(r) == [r EXCEPT
                     !.BasicPrice = Round3(r.BasicPrice),
                     !.CircularDate =
                         IF to_datetime(r.CircularDate) = <<>> THEN <<>>
                         ELSE strftime(to_datetime(r.CircularDate))]
    IN  [i \in 1..Len(df) |-> fmt(df[order[i]])]

\* line 258 and 261
next_slno_count(df) == Len(df) + 1

next_slno(df) ==
    IF df = <<>> THEN 1 ELSE Max({df[i].SlNo : i \in 1..Len(df)}) + 1

\* append_to_excel: the rows saved; the code returns their number
append_to_excel(df, r) ==
    sort_and_format_df(
        df \o <<LedgerRow(next_slno(df), r.Description, r.ProductCode,
                          r.BasicPrice, r.CircularDate, r.CircularLink)>>)

\* ------------------------------------------------------------ run log

Entry(utc, status, msg, url, saved, appended, total) ==
    [RunUTC |-> utc, Status |-> status, Message |-> msg, ChosenURL |-> url,
     SavedPDF |-> saved, RowsAppended |-> appended, TotalRowsAfter |-> total]

\* append_runlog: one entry more, the others as they were
append_runlog(log, info) == Append(log, info)

\* ------------------------------------------------------------ pages

\* the href values of the links
Href ==
    [
     dated_0506 |->
         <<"/", "c", "/", "I", "n", "g", "o", "t", "-", "0", "5", "-",
         "0", "6", "-", "2", "0", "2", "4", ".", "p", "d", "f">>,
     current |->
         <<"p", "r", "i", "c", "e", "s", "/", "c", "u", "r", "r", "e",
         "n", "t", ".", "p", "d", "f", " ">>,
     dated_0107 |->
         <<"/", "c", "/", "I", "n", "g", "o", "t", "-", "0", "1", "-",
         "0", "7", "-", "2", "0", "2", "4", ".", "p", "d", "f">>,
     spec |->
         <<"/", "c", "/", "I", "n", "g", "o", "t", "-", "S", "p", "e",
         "c", "-", "0", "1", "-", "0", "1", "-", "2", "0", "2", "4", ".",
         "P", "D", "F">>,
     loose |->
         <<"h", "t", "t", "p", "s", ":", "/", "/", "n", "a", "l", "c",
         "o", "i", "n", "d", "i", "a", ".", "c", "o", "m", "/", "x", "/",
         "i", "n", "g", "o", "t", ".", "p", "d", "f">>,
     wirerod |->
         <<"/", "c", "/", "w", "i", "r", "e", "r", "o", "d", ".", "p",
         "d", "f">>,
     html |->
         <<"/", "p", "a", "g", "e", ".", "h", "t", "m", "l">>
    ]
\* the texts of links and of <p> elements
Anchor ==
    [
     Ingots |->
         <<"I", "n", "g", "o", "t", "s">>,
     INGOTS_padded |->
         <<" ", "I", "N", "G", "O", "T", "S", " ">>,
     Download |->
         <<"D", "o", "w", "n", "l", "o", "a", "d">>,
     loose |->
         <<"A", "l", "u", "m", "i", "n", "i", "u", "m", " ", "I", "n",
         "g", "o", "t", " ", "p", "r", "i", "c", "e">>,
     WireRods |->
         <<"W", "i", "r", "e", " ", "R", "o", "d", "s">>
    ]

\* the elements the pages are made of
E_strict_dated == Elem(Href.dated_0506, <<>>, Anchor.Ingots)
E_strict == Elem(Href.current, <<>>, Anchor.INGOTS_padded)
E_dated == Elem(Href.dated_0107, Anchor.Download, NoP)
E_spec == Elem(Href.spec, <<>>, Anchor.Ingots)
E_loose == Elem(Href.loose, Anchor.loose, NoP)
E_other == Elem(Href.wirerod, Anchor.WireRods, NoP)
E_html == Elem(Href.html, <<>>, Anchor.Ingots)
E_bare_p == Elem(None, <<>>, Anchor.Ingots)

ElemKinds == {E_strict_dated, E_strict, E_dated, E_spec, E_loose, E_other,
              E_html, E_bare_p}

\* the pages of at most MaxLinks elements
Pages == UNION {[1..n -> ElemKinds] : n \in 0..MaxLinks}

\* the pages get_html returns in a run of main()
MainPages == {<<E_other>>, <<E_other, E_strict_dated>>, <<E_dated, E_loose>>}

\* ------------------------------------------------------------ documents

\* the cells of the tables
Cell ==
    [
     Description |->
         <<"D", "e", "s", "c", "r", "i", "p", "t", "i", "o", "n">>,
     Code |->
         <<"C", "o", "d", "e">>,
     Price |->
         <<"P", "r", "i", "c", "e">>,
     n1 |->
         <<"1">>,
     n12 |->
         <<"1", "2">>,
     AluminiumIngot |->
         <<"A", "l", "u", "m", "i", "n", "i", "u", "m", " ", "I", "n",
         "g", "o", "t">>,
     IE07_padded |->
         <<" ", "I", "E", "0", "7", " ">>,
     ie07 |->
         <<"i", "e", "0", "7">>,
     n268_250 |->
         <<"2", "6", "8", ",", "2", "5", "0">>,
     WireRod |->
         <<"W", "i", "r", "e", " ", "R", "o", "d">>,
     WR01 |->
         <<"W", "R", "0", "1">>,
     n250000 |->
         <<"2", "5", "0", "0", "0", "0">>,
     NA |->
         <<"N", "A">>,
     Rs |->
         <<"R", "s", ".", "2", ",", "6", "8", ",", "2", "5", "0", "/",
         "-">>
    ]
\* the words of the text lines
WordText ==
    [
     ALUMINIUM |->
         <<"A", "L", "U", "M", "I", "N", "I", "U", "M">>,
     INGOT |->
         <<"I", "N", "G", "O", "T">>,
     IE07 |->
         <<"I", "E", "0", "7">>,
     n271500 |->
         <<"2", "7", "1", "5", "0", "0">>,
     WIRE |->
         <<"W", "I", "R", "E">>,
     ROD |->
         <<"R", "O", "D">>,
     Standard |->
         <<"S", "t", "a", "n", "d", "a", "r", "d">>,
     Ingots |->
         <<"I", "n", "g", "o", "t", "s">>,
     n99 |->
         <<"9", "9">>,
     T_INGOT |->
         <<"T", "-", "I", "N", "G", "O", "T">>,
     n268250_50 |->
         <<"2", "6", "8", "2", "5", "0", ".", "5", "0">>,
     n12345678 |->
         <<"1", "2", "3", "4", "5", "6", "7", "8">>
    ]

Word(t, x, y) == [text |-> t, x0 |-> x, top |-> y]
Page(tbls, ws) == [tables |-> tbls, words |-> ws]

\* a table whose IE07 row is accepted: ALUMINIUM INGOT, 268250
T_hit == <<<<Cell.n1, Cell.Description, Cell.Code, Cell.Price>>,
           <<Cell.n1, Cell.AluminiumIngot, Cell.IE07_padded, Cell.n268_250>>>>
\* no row of the code
T_other == <<<<Cell.n1, Cell.WireRod, Cell.WR01, Cell.n250000>>>>
\* the code with nothing that looks like a price to its right
T_noprice == <<<<Cell.AluminiumIngot, Cell.ie07, Cell.NA>>>>
\* the code with nothing but a number to its left and a price float() refuses
T_rs == <<<<Cell.n12, <<>>, Cell.ie07, <<>>, Cell.Rs>>>>

\* words of a line "ALUMINIUM INGOT IE07 271500", out of order and on tops
\* that round to one tenth
L_hit == <<Word(WordText.IE07, 300, 1003), Word(WordText.ALUMINIUM, 50, 1001),
           Word(WordText.n271500, 400, 1000), Word(WordText.INGOT, 120, 1004)>>
L_other == <<Word(WordText.WIRE, 50, 1000), Word(WordText.ROD, 100, 1000),
             Word(Cell.WR01, 300, 1000), Word(Cell.n250000, 400, 1000)>>
\* the code on a line that ends in no price, then "IE07 T-INGOT 268250.50"
L_second == <<Word(Cell.ie07, 50, 1000), Word(WordText.Standard, 100, 1000),
              Word(WordText.Ingots, 200, 1000), Word(WordText.n99, 400, 1000),
              Word(WordText.IE07, 50, 2000), Word(WordText.T_INGOT, 100, 2000),
              Word(WordText.n268250_50, 400, 2000)>>
\* a run of eight digits: the match starts at its second
L_long == <<Word(WordText.INGOT, 50, 1000), Word(WordText.IE07, 100, 1000),
            Word(WordText.n12345678, 400, 1000)>>
\* the code and the price on two lines
L_split == <<Word(WordText.IE07, 50, 1000), Word(WordText.n271500, 400, 1050)>>

PageKinds == {Page(<<T_hit>>, <<>>), Page(<<T_other, T_hit>>, L_hit),
              Page(<<>>, L_hit), Page(<<T_other>>, L_hit),
              Page(<<T_noprice>>, L_second), Page(<<T_noprice>>, L_split),
              Page(<<T_other>>, L_other), Page(<<T_rs>>, L_other),
              Page(<<>>, L_long), Page(<<>>, <<>>)}

\* the documents of at most MaxPages pages
Docs == UNION {[1..n -> PageKinds] : n \in 1..MaxPages}

\* the documents a download returns in a run of main()
MainDocs == {<<Page(<<T_hit>>, <<>>)>>, <<Page(<<T_other>>, L_other)>>,
             <<Page(<<T_rs>>, L_other)>>}

\* the Content-Type and Content-Disposition headers
Header ==
    [
     type_pdf |->
         <<"A", "p", "p", "l", "i", "c", "a", "t", "i", "o", "n", "/",
         "P", "D", "F", ";", " ", "c", "h", "a", "r", "s", "e", "t", "=",
         "b", "i", "n", "a", "r", "y">>,
     type_html |->
         <<"t", "e", "x", "t", "/", "h", "t", "m", "l">>,
     disposition_name |->
         <<"a", "t", "t", "a", "c", "h", "m", "e", "n", "t", ";", " ",
         "f", "i", "l", "e", "n", "a", "m", "e", "=", "\"", "I", "n",
         "g", "o", "t", "-", "3", "1", "-", "0", "2", "-", "2", "0", "2",
         "4", ".", "p", "d", "f", "\"">>
    ]

Response(ok, ct, cd, url, body) ==
    [ok |-> ok, ctype |-> ct, cd |-> cd, url |-> url, body |-> body]

\* what the server may answer to a GET of url
Responses(url) ==
    {Response(FALSE, Header.type_pdf, <<>>, url, <<>>),
     Response(TRUE, Header.type_html, <<>>, url, <<>>)}
    \cup {Response(TRUE, Header.type_pdf, cd, url, d) :
             cd \in {<<>>, Header.disposition_name}, d \in MainDocs}

\* datetime.date.today() in the n-th invocation: one invocation a day, from
\* the first of July 2024
Today(n) == <<n, 7, 2024>>

\* ------------------------------------------------------------ main()

MSG_NO_LINK == "No Ingots PDF link found on the page."
MSG_NO_CHANGE == "No change in PDF. Skipping download & Excel update."
MSG_UPDATED == "New circular processed."

\* the process ends: by return, by sys.exit(1), or by an exception
Exit(how, url) == Append(exits, [how |-> how, at |-> pc, url |-> url])

Locals ==
    /\ html = <<>> /\ pdf_url = None /\ last = None /\ ctype = <<>>
    /\ pdf_path = None /\ pdf = <<>> /\ row = <<>> /\ total_rows = 0

Init ==
    /\ pc = "get_html" /\ runs = 1 /\ Locals
    /\ today = Today(1)
    /\ marker = <<>> /\ ledger = <<>> /\ runlog = <<>> /\ exits = <<>>

\* line 332: the page is fetched
GetHtml ==
    /\ pc = "get_html"
    /\ \E page \in MainPages : html' = page
    /\ pc' = "locate"
    /\ UNCHANGED <<runs, pdf_url, last, ctype, pdf_path, pdf, row, total_rows,
                   today, marker, ledger, runlog, exits>>

\* line 332: requests raises (network, status)
GetHtmlRaises ==
    /\ pc = "get_html"
    /\ pc' = "raised"
    /\ exits' = Exit("raise", pdf_url)
    /\ UNCHANGED <<runs, html, pdf_url, last, ctype, pdf_path, pdf, row,
                   total_rows, today, marker, ledger, runlog>>

\* lines 333-343
Locate ==
    /\ pc = "locate"
    /\ pdf_url' = find_ingots_pdf_url(html)
    /\ IF pdf_url' = None
       THEN /\ runlog' = append_runlog(runlog,
                   Entry(runs, "SKIPPED", MSG_NO_LINK, <<>>, <<>>, 0, <<>>))
            /\ pc' = "exit1"
            /\ exits' = Exit("exit1", pdf_url')
       ELSE /\ pc' = "read_last"
            /\ UNCHANGED <<runlog, exits>>
    /\ UNCHANGED <<runs, html, last, ctype, pdf_path, pdf, row, total_rows,
                   today, marker, ledger>>

\* line 76
read_last_url == Strip(marker)

\* line 346
Unchanged_never(url, lasturl) == FALSE

Unchanged(url, lasturl) == url = lasturl

\* lines 345-353
Gate ==
    /\ pc = "read_last"
    /\ last' = read_last_url
    /\ IF Unchanged(pdf_url, last')
       THEN /\ runlog' = append_runlog(runlog,
                   Entry(runs, "SKIPPED", MSG_NO_CHANGE, pdf_url, <<>>, 0, <<>>))
            /\ pc' = "returned"
            /\ exits' = Exit("return", pdf_url)
       ELSE /\ pc' = "download"
            /\ UNCHANGED <<runlog, exits>>
    /\ UNCHANGED <<runs, html, pdf_url, ctype, pdf_path, pdf, row, total_rows,
                   today, marker, ledger>>

\* line 356, download_pdf
DownloadPdf ==
    /\ pc = "download"
    /\ \E resp \in Responses(pdf_url) :
          /\ ctype' = IF resp.ok THEN Lower(resp.ctype) ELSE ctype
          /\ IF DownloadOk(resp)
             THEN /\ pdf_path' = SavedName(resp)
                  /\ pdf' = resp.body
                  /\ pc' = "write_last"
                  /\ UNCHANGED exits
             ELSE /\ pc' = "raised"
                  /\ exits' = Exit("raise", pdf_url)
                  /\ UNCHANGED <<pdf_path, pdf>>
    /\ UNCHANGED <<runs, html, pdf_url, last, row, total_rows, today, marker,
                   ledger, runlog>>

\* line 357, write_last_url
WriteLast_deferred ==
    /\ pc = "write_last"
    /\ pc' = "extract"
    /\ UNCHANGED <<runs, html, pdf_url, last, ctype, pdf_path, pdf, row,
                   total_rows, today, marker, ledger, runlog, exits>>

WriteLast ==
    /\ pc = "write_last"
    /\ marker' = pdf_url
    /\ pc' = "extract"
    /\ UNCHANGED <<runs, html, pdf_url, last, ctype, pdf_path, pdf, row,
                   total_rows, today, ledger, runlog, exits>>

\* line 361
Extract ==
    /\ pc = "extract"
    /\ row' = extract_row_ie07(pdf)
    /\ IF row' = <<>>
       THEN pc' = "raised" /\ exits' = Exit("raise", pdf_url)
       ELSE pc' = "normalize" /\ UNCHANGED exits
    /\ UNCHANGED <<runs, html, pdf_url, last, ctype, pdf_path, pdf, total_rows,
                   today, marker, ledger, runlog>>

\* lines 364-372
Normalize ==
    /\ pc = "normalize"
    /\ LET thousands == to_thousands(row[1].BasicPrice)
       IN  IF thousands = <<>>
           THEN /\ pc' = "raised"
                /\ exits' = Exit("raise", pdf_url)
                /\ UNCHANGED row
           ELSE /\ row' = <<[Description |-> row[1].Description,
                             ProductCode |-> row[1].ProductCode,
                             BasicPrice |-> thousands[1],
                             CircularDate |->
                                 parse_circular_date_from_filename(pdf_path, today),
                             CircularLink |-> pdf_url]>>
                /\ pc' = "append"
                /\ UNCHANGED exits
    /\ UNCHANGED <<runs, html, pdf_url, last, ctype, pdf_path, pdf, total_rows,
                   today, marker, ledger, runlog>>

\* line 275: return df.shape[0]
rows_after_index(df) == Len(df) - 1

rows_after(df) == Len(df)

\* line 374
AppendExcel ==
    /\ pc = "append"
    /\ ledger' = append_to_excel(ledger, row[1])
    /\ total_rows' = rows_after(ledger')
    /\ pc' = "log"
    /\ UNCHANGED <<runs, html, pdf_url, last, ctype, pdf_path, pdf, row, today,
                   marker, runlog, exits>>

\* lines 377-381
LogUpdated ==
    /\ pc = "log"
    /\ runlog' = append_runlog(runlog,
          Entry(runs, "UPDATED", MSG_UPDATED, pdf_url, pdf_path, 1,
                <<total_rows>>))
    /\ pc' = "returned"
    /\ exits' = Exit("return", pdf_url)
    /\ UNCHANGED <<runs, html, pdf_url, last, ctype, pdf_path, pdf, row,
                   total_rows, today, marker, ledger>>

Ended == pc \in {"returned", "exit1", "raised"}

\* the next invocation of the script: the files stay, the locals are new
NextRun ==
    /\ Ended
    /\ runs < MaxRuns
    /\ runs' = runs + 1
    /\ pc' = "get_html"
    /\ html' = <<>> /\ pdf_url' = None /\ last' = None /\ ctype' = <<>>
    /\ pdf_path' = None /\ pdf' = <<>> /\ row' = <<>> /\ total_rows' = 0
    /\ today' = Today(runs')
    /\ UNCHANGED <<marker, ledger, runlog, exits>>

Next ==
    \/ GetHtml \/ GetHtmlRaises \/ Locate \/ Gate \/ DownloadPdf \/ WriteLast
    \/ Extract \/ Normalize \/ AppendExcel \/ LogUpdated \/ NextRun

Spec == Init /\ [][Next]_vars

\* ------------------------------------------------------------ the locator alone

\* find_ingots_pdf_url on every page of at most MaxLinks elements
InitLocate ==
    /\ pc = "locate" /\ runs = 1
    /\ html \in Pages
    /\ pdf_url = None /\ last = None /\ ctype = <<>>
    /\ pdf_path = None /\ pdf = <<>> /\ row = <<>> /\ total_rows = 0
    /\ today = Today(1)
    /\ marker = <<>> /\ ledger = <<>> /\ runlog = <<>> /\ exits = <<>>

SpecLocate == InitLocate /\ [][Locate]_vars

\* ------------------------------------------------------------ the extractor alone

\* extract_row_ie07 on every document of at most MaxPages pages, saved from
\* the dated link
InitExtract ==
    /\ pc = "extract" /\ runs = 1
    /\ html = <<E_strict_dated>>
    /\ pdf_url = urljoin(Href.dated_0506) /\ last = None /\ ctype = S_application_pdf
    /\ pdf_path = basename(urljoin(Href.dated_0506))
    /\ pdf \in Docs
    /\ row = <<>> /\ total_rows = 0
    /\ today = Today(1)
    /\ marker = urljoin(Href.dated_0506)
    /\ ledger = <<>> /\ runlog = <<>> /\ exits = <<>>

SpecExtract == InitExtract /\ [][Extract]_vars

\* ------------------------------------------------------------ the ledger alone

\* the dates of the rows
Day ==
    [
     d0506 |->
         <<"0", "5", "-", "0", "6", "-", "2", "0", "2", "4">>,
     d0107 |->
         <<"0", "1", "-", "0", "7", "-", "2", "0", "2", "4">>,
     d0207 |->
         <<"0", "2", "-", "0", "7", "-", "2", "0", "2", "4">>
    ]

\* an existing ledger's rows: Sl.no. 1, 2 and 5, two of them of one date
OldRows ==
    {LedgerRow(1, S_DEFAULT_DESC, S_IE07, 2682500, Day.d0506, urljoin(Href.dated_0506)),
     LedgerRow(2, S_DEFAULT_DESC, S_IE07, 2715000, Day.d0107, urljoin(Href.dated_0107)),
     LedgerRow(5, S_DEFAULT_DESC, S_IE07, 2650000, Day.d0506, urljoin(Strip(Href.current)))}

\* the file as it may be found: no rows, or some of OldRows in any order
ExistingLedgers ==
    {l \in UNION {[1..n -> OldRows] : n \in 0..Cardinality(OldRows)} :
        \A i, j \in 1..Len(l) : i # j => l[i] # l[j]}

\* the rows main() hands to append_to_excel
NewRows ==
    {[Description |-> S_DEFAULT_DESC, ProductCode |-> S_IE07,
      BasicPrice |-> 2682500, CircularDate |-> d, CircularLink |-> urljoin(Href.loose)] :
        d \in {Day.d0506, Day.d0207}}

InitLedger ==
    /\ pc = "append" /\ runs = 1
    /\ html = <<E_loose>>
    /\ pdf_url = urljoin(Href.loose) /\ last = None /\ ctype = S_application_pdf
    /\ pdf_path = basename(urljoin(Href.loose))
    /\ pdf = <<Page(<<T_hit>>, <<>>)>>
    /\ row \in {<<r>> : r \in NewRows}
    /\ total_rows = 0
    /\ today = Today(1)
    /\ marker = urljoin(Href.loose)
    /\ ledger \in ExistingLedgers
    /\ runlog = <<>> /\ exits = <<>>

\* a later invocation, from its start to the call of append_to_excel
AppendAgain ==
    /\ pc = "returned"
    /\ runs < MaxAppends
    /\ runs' = runs + 1
    /\ row' \in {<<r>> : r \in NewRows}
    /\ total_rows' = 0
    /\ pc' = "append"
    /\ UNCHANGED <<html, pdf_url, last, ctype, pdf_path, pdf, today, marker,
                   ledger, runlog, exits>>

NextLedger == AppendExcel \/ LogUpdated \/ AppendAgain

SpecLedger == InitLedger /\ [][NextLedger]_vars

\* ------------------------------------------------------------ claims

SlNos(df) == {df[i].SlNo : i \in 1..Len(df)}
DateOf(r) == Ordinal(to_datetime(r.CircularDate))
Updated(log) == {i \in 1..Len(log) : log[i].Status = "UPDATED"}
EntriesOfRun(n) == {i \in 1..Len(runlog) : runlog[i].RunUTC = n}
IsPdfType(t) == Contains(t, S_application_pdf)

\* C1: a run that chose a url and then fails (download, extraction, price)
\* has appended exactly one run-log entry carrying that url when the failure
\* reaches the caller.
C1_FailureIsLogged ==
    (pc = "raised" /\ pdf_url # None) =>
        Cardinality({i \in EntriesOfRun(runs) : runlog[i].ChosenURL = pdf_url}) = 1

\* C2: when the tables of some page k yield a record and the line scan
\* would yield one on an earlier page whose tables yield none,
\* extract_row_ie07 returns the table record of page k.
C2_TablesBeforeLines ==
    pc # "extract" =>
        \A k \in 1..Len(pdf) :
            ( /\ TableResult(pdf[k]) # <<>>
              /\ \A m \in 1..(k-1) : TableResult(pdf[m]) = <<>>
              /\ \E j \in 1..(k-1) : WordsResult(pdf[j]) # <<>> )
            => row = TableResult(pdf[k])

\* C3: the step of a run whose located url equals the stored marker appends
\* one SKIPPED entry with 0 rows appended and an empty total, downloads
\* nothing, leaves the ledger and the marker as they were, and returns.
C3_UnchangedIsSkipped ==
    [][(pc = "read_last" /\ pdf_url = marker) =>
          /\ runlog' = Append(runlog,
                 Entry(runs, "SKIPPED", MSG_NO_CHANGE, pdf_url, <<>>, 0, <<>>))
          /\ pdf_path' = None /\ pdf' = <<>> /\ ctype' = <<>>
          /\ ledger' = ledger
          /\ marker' = marker
          /\ pc' = "returned"
          /\ exits'[Len(exits')].how = "return"]_vars

C3_Witness ==
    /\ pc = "returned" /\ pdf_path = None
    /\ pdf_url # None /\ pdf_url = marker
    /\ Len(ledger) = 1
    /\ runlog[Len(runlog)].Status = "SKIPPED"
    /\ runlog[Len(runlog)].ChosenURL = pdf_url

\* C4: the marker is the chosen url from the moment extraction starts; and
\* once a run has failed in extraction or in the price for a url, every
\* later run, for as long as the locator keeps returning that url, ends at
\* the gate as SKIPPED with no row appended.
C4_MarkerSetBeforeExtraction ==
    /\ pc \in {"extract", "normalize", "append", "log"} => marker = pdf_url
    /\ \A i \in 1..Len(exits) : \A j \in (i+1)..Len(exits) :
          ( /\ exits[i].how = "raise"
            /\ exits[i].at \in {"extract", "normalize"}
            /\ \A k \in (i+1)..j : exits[k].url = exits[i].url )
          => /\ exits[j].how = "return"
             /\ exits[j].at = "read_last"
             /\ \A e \in EntriesOfRun(j) :
                   /\ runlog[e].Status = "SKIPPED"
                   /\ runlog[e].RowsAppended = 0
                   /\ runlog[e].ChosenURL = exits[i].url
             /\ Cardinality(EntriesOfRun(j)) = 1

C4_Witness ==
    /\ Len(exits) = MaxRuns
    /\ exits[1].how = "raise" /\ exits[1].at = "normalize"
    /\ \A k \in 2..MaxRuns : exits[k].url = exits[1].url /\ exits[k].at = "read_last"
    /\ ledger = <<>>

\* C5: an append gives the new row Sl.no. max + 1 of the rows that were
\* there (1 when there were none), whatever their order, keeps the other
\* Sl.no.s, and leaves all Sl.no.s pairwise distinct.
C5_SlNoIsMaxPlusOne ==
    [][(pc = "append" /\ pc' = "log") =>
          /\ Len(ledger') = Len(ledger) + 1
          /\ \A i, j \in 1..Len(ledger') :
                i # j => ledger'[i].SlNo # ledger'[j].SlNo
          /\ \E k \in 1..Len(ledger') :
                /\ ledger'[k].SlNo =
                      IF ledger = <<>> THEN 1 ELSE Max(SlNos(ledger)) + 1
                /\ ledger'[k].CircularLink = row[1].CircularLink
                /\ ledger'[k].CircularDate = row[1].CircularDate
                /\ {ledger'[m].SlNo : m \in (1..Len(ledger')) \ {k}} = SlNos(ledger)]_vars

C5_Witness ==
    /\ pc = "log"
    /\ Len(ledger) = 4
    /\ ledger[1].SlNo = 6
    /\ SlNos(ledger) = {1, 2, 5, 6}

\* C6: after a save the rows are in descending order of Circular Date, rows
\* of one date in ascending order of Sl.no.
C6_SortedAfterSave ==
    pc \in {"log", "returned"} =>
        \A i \in 1..(Len(ledger) - 1) :
            \/ DateOf(ledger[i]) > DateOf(ledger[i + 1])
            \/ /\ DateOf(ledger[i]) = DateOf(ledger[i + 1])
               /\ ledger[i].SlNo < ledger[i + 1].SlNo

C6_Witness ==
    /\ pc = "log"
    /\ Len(ledger) = 4
    /\ DateOf(ledger[1]) > DateOf(ledger[2])
    /\ DateOf(ledger[2]) = DateOf(ledger[3])
    /\ DateOf(ledger[3]) = DateOf(ledger[4])
    /\ ledger[4].SlNo = 6

\* C7: a step changes the marker only when the download has returned a file
\* whose content type names a pdf, and then to the chosen url; a step changes
\* the ledger only then too; so a run that found no link, found the url
\* unchanged, or failed to fetch or download changes neither.
C7_MarkerOnlyAfterPdfDownload ==
    [][ /\ marker' # marker =>
            /\ pdf_path # None /\ IsPdfType(ctype)
            /\ marker' = pdf_url
        /\ ledger' # ledger =>
            /\ pdf_path # None /\ IsPdfType(ctype)
        /\ (pdf_path' = None) => (marker' = marker /\ ledger' = ledger) ]_vars

C7_Witness ==
    /\ pc = "extract"
    /\ last # None /\ last # pdf_url
    /\ marker = pdf_url
    /\ IsPdfType(ctype)
    /\ \E i \in 1..Len(exits) : exits[i].how = "raise" /\ exits[i].at = "download"

C9_TierPriority ==
    pc # "locate" =>
        LET S == {i \in 1..Len(html) : StrictAccepts(html[i])}
            D == {i \in 1..Len(html) : DatedAccepts(html[i])}
            Url(i) == urljoin(Strip(html[i].href))
        IN  /\ (\E i \in S : \E j \in D : html[i].href # html[j].href)
                => /\ pdf_url \in {Url(i) : i \in S}
                   /\ pdf_url \notin {Url(j) : j \in D \ S}
            /\ (S \cup D # {}) => pdf_url \in {Url(i) : i \in S \cup D}

C9_Witness ==
    /\ pc = "read_last"
    /\ Len(html) = 3
    /\ DatedAccepts(html[1]) /\ ~StrictAccepts(html[1])
    /\ LooseAccepts(html[2]) /\ ~StrictAccepts(html[2]) /\ ~DatedAccepts(html[2])
    /\ StrictAccepts(html[3]) /\ ~DatedAccepts(html[3])
    /\ pdf_url = urljoin(Strip(html[3].href))

\* C10: when a run has ended, every UPDATED entry's total is the number of
\* UPDATED entries up to it, and the ledger has as many rows as there are
\* UPDATED entries.
C10_TotalsCountUpdates ==
    Ended =>
        /\ Len(ledger) = Cardinality(Updated(runlog))
        /\ \A i \in Updated(runlog) :
              runlog[i].TotalRowsAfter =
                  <<Cardinality({k \in Updated(runlog) : k <= i})>>

C10_Witness ==
    /\ Ended
    /\ Len(runlog) = 3
    /\ runlog[1].Status = "UPDATED"
    /\ runlog[2].Status = "SKIPPED"
    /\ runlog[3].Status = "UPDATED" /\ runlog[3].TotalRowsAfter = <<2>>

====
